---------------------------- MODULE Spec2Model ----------------------------
(***************************************************************************)
(* Dimensional transformation engine of the EcoBottle ETL                  *)
(* (src/ETL/transform.py), with the extraction result it consumes.         *)
(*                                                                         *)
(* A source table is a sequence of rows (records).  Only the key and       *)
(* timestamp columns are carried; purely descriptive columns (email, sku,  *)
(* amounts, ...) are copied verbatim by the code and are left out.         *)
(* A timestamp is an integer day * TicksPerDay + tick.  A cell that is     *)
(* null (NaN / NaT / None) is NaN; a text that does not parse as a         *)
(* timestamp is BadText.                                                   *)
(***************************************************************************)
EXTENDS Integers, Sequences, FiniteSets, TLC

VARIABLES data, pc, dw_tables, result, main

vars == <<data, pc, dw_tables, result, main>>

-----------------------------------------------------------------------------
(* Bounds of the model *)

\* last day number a source timestamp may fall on (days 0..MaxDay)
MaxDay == 3
\* time-of-day resolution: ticks 0..TicksPerDay-1 within a day
TicksPerDay == 2
\* natural keys and foreign keys are drawn from 1..MaxKey
MaxKey == 3
\* a source table whose rows vary holds at most MaxRows rows
MaxRows == 2

-----------------------------------------------------------------------------
(* Cell values *)

\* a missing cell: NaN, NaT or None in pandas
NaN == -999
\* a text cell that pd.to_datetime(errors='coerce') cannot parse
BadText == -998

Timestamps == 0..((MaxDay + 1) * TicksPerDay - 1)
DateCells == Timestamps \cup {NaN, BadText}
Keys == 1..MaxKey
KeyCells == Keys \cup {NaN}

-----------------------------------------------------------------------------
(* pandas primitives, as transform.py uses them *)

\* df[c]: one column of a table
Column(tbl, c) == [i \in 1..Len(tbl) |-> tbl[i][c]]

\* pd.concat of a sequence of series
RECURSIVE Concat(_)
Concat(ss) == IF ss = <<>> THEN <<>> ELSE Head(ss) \o Concat(Tail(ss))

\* Series.dropna()
RECURSIVE DropNa(_)
DropNa(s) ==
    IF s = <<>> THEN <<>>
    ELSE IF Head(s) = NaN THEN DropNa(Tail(s))
         ELSE <<Head(s)>> \o DropNa(Tail(s))

\* FillNa with the replacement left out
FillNaSkipped(x, v) == x

\* Series.fillna(v), one cell
FillNa(x, v) == IF x = NaN THEN v ELSE x

\* pd.to_datetime(x, errors='coerce'), one cell: what does not parse is NaT
ToDatetime(x) == IF x = BadText THEN NaN ELSE x

\* Series.dt.normalize(), one cell: midnight of the same day
Normalize(t) == IF t = NaN THEN NaN ELSE t - (t % TicksPerDay)

\* Series.dt.strftime('%H:%M:%S'), one cell: the time of day
StrfTime(t) == IF t = NaN THEN NaN ELSE t % TicksPerDay

SeqMin(s) == CHOOSE x \in {s[i] : i \in 1..Len(s)} :
                \A y \in {s[i] : i \in 1..Len(s)} : x <= y
SeqMax(s) == CHOOSE x \in {s[i] : i \in 1..Len(s)} :
                \A y \in {s[i] : i \in 1..Len(s)} : x >= y

\* a row of nulls over the given columns (the right side of an unmatched
\* left row in a left merge)
NullRow(cols) == [c \in cols |-> NaN]

\* pd.merge(left, right, left_on=lk, right_on=rk, how='left'): left order is
\* kept, a left row with several matches is repeated in right order, a left
\* row with no match gets nulls.  pandas matches a null key with a null key.
RECURSIVE MatchesOf(_, _, _, _)
MatchesOf(l, right, lk, rk) ==
    IF right = <<>> THEN <<>>
    ELSE (IF Head(right)[rk] = l[lk] THEN <<l @@ Head(right)>> ELSE <<>>)
         \o MatchesOf(l, Tail(right), lk, rk)

\* the merge with how='inner': a left row with no match is dropped
RECURSIVE InnerMerge(_, _, _, _, _)
InnerMerge(left, right, lk, rk, rcols) ==
    IF left = <<>> THEN <<>>
    ELSE MatchesOf(Head(left), right, lk, rk)
         \o InnerMerge(Tail(left), right, lk, rk, rcols)

RECURSIVE LeftMerge(_, _, _, _, _)
LeftMerge(left, right, lk, rk, rcols) ==
    IF left = <<>> THEN <<>>
    ELSE LET m == MatchesOf(Head(left), right, lk, rk)
         IN (IF m = <<>> THEN <<Head(left) @@ NullRow(rcols)>> ELSE m)
            \o LeftMerge(Tail(left), right, lk, rk, rcols)

\* ascending order of sort_values: nulls last (na_position='last')
Before(a, b) == a # NaN /\ (b = NaN \/ a < b)

RECURSIVE InsertSorted(_, _, _)
InsertSorted(row, sorted, by) ==
    IF sorted = <<>> THEN <<row>>
    ELSE IF Before(row[by], Head(sorted)[by]) THEN <<row>> \o sorted
         ELSE <<Head(sorted)>> \o InsertSorted(row, Tail(sorted), by)

\* df.sort_values(by=...): numpy's quicksort is an insertion sort on short
\* arrays, so rows with equal keys keep their order
RECURSIVE SortValuesFrom(_, _, _)
SortValuesFrom(rows, acc, by) ==
    IF rows = <<>> THEN acc
    ELSE SortValuesFrom(Tail(rows), InsertSorted(Head(rows), acc, by), by)

\* SortValues with the sort left out: the rows stay in source order
SortValuesSkipped(rows, by) == rows

SortValues(rows, by) == SortValuesFrom(rows, <<>>, by)

\* df.reset_index(drop=True); df['id'] = df.index + 1
AssignId(rows) == [i \in 1..Len(rows) |-> [id |-> i] @@ rows[i]]

\* the series assigned bottom up instead of by row index
AlignedCellReversed(series, i) ==
    IF i <= Len(series) THEN series[Len(series) + 1 - i] ELSE NaN

\* df[c] = series: the series is aligned on the row index
AlignedCell(series, i) == IF i <= Len(series) THEN series[i] ELSE NaN

-----------------------------------------------------------------------------
(* Key resolution utilities *)

\* _get_date_id with a lookup miss defaulted to the sentinel of the
\* relational keys instead of left null
_get_date_id_defaulted(date_series, dim_calendar) ==
    LET dates == [i \in 1..Len(date_series) |->
                     [date_lookup |-> Normalize(ToDatetime(date_series[i]))]]
        cal == [i \in 1..Len(dim_calendar.rows) |->
                   [date |-> dim_calendar.rows[i].date,
                    id |-> dim_calendar.rows[i].id]]
        merged == LeftMerge(dates, cal, "date_lookup", "date", {"date", "id"})
    IN [i \in 1..Len(merged) |-> IF merged[i].id = NaN THEN -1 ELSE merged[i].id]

_get_date_id(date_series, dim_calendar) ==
    LET dates == [i \in 1..Len(date_series) |->
                     [date_lookup |-> Normalize(ToDatetime(date_series[i]))]]
        cal == [i \in 1..Len(dim_calendar.rows) |->
                   [date |-> dim_calendar.rows[i].date,
                    id |-> dim_calendar.rows[i].id]]
        merged == LeftMerge(dates, cal, "date_lookup", "date", {"date", "id"})
    IN Column(merged, "id")

_get_time(date_series) ==
    [i \in 1..Len(date_series) |-> FillNa(StrfTime(ToDatetime(date_series[i])), 0)]

-----------------------------------------------------------------------------
(* Calendar dimension *)

CalendarCols == <<"id", "date", "day", "month", "year", "day_name",
                  "month_name", "quarter", "week_number", "year_month",
                  "is_weekend">>

\* the (table, column) pairs create_dim_calendar scans
CalendarSources == <<
    <<"sales_order", "order_date">>,
    <<"web_session", "started_at">>,
    <<"nps_response", "responded_at">>,
    <<"payment", "paid_at">>,
    <<"shipment", "shipped_at">>,
    <<"shipment", "delivered_at">>,
    <<"customer", "created_at">>,
    <<"address", "created_at">>,
    <<"product", "created_at">> >>

ParsedColumn(t, src) ==
    LET col == Column(t[src[1]], src[2])
    IN [i \in 1..Len(col) |-> ToDatetime(col[i])]

\* DateRange with the end date left out of the range
DateRangeOpen(min_date, max_date) ==
    [i \in 1..((max_date - min_date) \div TicksPerDay) |->
        min_date + (i - 1) * TicksPerDay]

\* pd.date_range(start, end, freq='D')
DateRange(min_date, max_date) ==
    [i \in 1..((max_date - min_date) \div TicksPerDay + 1) |->
        min_date + (i - 1) * TicksPerDay]

create_dim_calendar(t) ==
    LET all_dates == DropNa(Concat([k \in 1..Len(CalendarSources) |->
                                       ParsedColumn(t, CalendarSources[k])]))
        all_dates_normalized == [i \in 1..Len(all_dates) |-> Normalize(all_dates[i])]
    IN IF all_dates_normalized = <<>>
       THEN [cols |-> CalendarCols, rows |-> <<>>]
       ELSE LET min_date == SeqMin(all_dates_normalized)
                max_date == SeqMax(all_dates_normalized)
                date_range == DateRange(min_date, max_date)
                df_calendar == [i \in 1..Len(date_range) |-> [date |-> date_range[i]]]
            IN [cols |-> CalendarCols, rows |-> AssignId(df_calendar)]


-----------------------------------------------------------------------------
(* Dimension builders *)

create_dim_customer(t) ==
    LET df == [i \in 1..Len(t.customer) |->
                  [customer_key |-> t.customer[i].customer_id,
                   created_at |-> t.customer[i].created_at]]
    IN [cols |-> <<"id", "customer_key", "email", "first_name", "last_name",
                   "phone", "status", "created_at">>,
        rows |-> AssignId(SortValues(df, "customer_key"))]

create_dim_channel(t) ==
    LET df == [i \in 1..Len(t.channel) |->
                  [channel_key |-> t.channel[i].channel_id]]
    IN [cols |-> <<"id", "channel_key", "code", "name">>,
        rows |-> AssignId(SortValues(df, "channel_key"))]

create_dim_address(t) ==
    LET merged == LeftMerge(t.address, t.province, "province_id", "province_id",
                            {"province_id", "name"})
        df == [i \in 1..Len(merged) |->
                  [address_key |-> merged[i].address_id,
                   province_name |-> merged[i].name,
                   created_at |-> merged[i].created_at]]
    IN [cols |-> <<"id", "address_key", "line1", "line2", "city",
                   "province_name", "province_code", "postal_code",
                   "country_code", "created_at">>,
        rows |-> AssignId(SortValues(df, "address_key"))]

\* the label of a missing category or parent category ('Sin Categoría')
SinCategoria == 0

\* the dtype read_csv gives an identifier column: float64 as soon as one
\* cell is missing, int64 otherwise
IsFloatColumn(col) == \E i \in 1..Len(col) : col[i] = NaN

\* Series.astype(str), one cell: <<>> is 'nan', <<k>> is 'k', <<k, 0>> is 'k.0'
StrOf(x, isFloat) ==
    IF x = NaN THEN <<>> ELSE IF isFloat THEN <<x, 0>> ELSE <<x>>

\* df[c] = df[c].astype(str)
AsTypeStr(tbl, c) ==
    LET isFloat == IsFloatColumn(Column(tbl, c))
    IN [i \in 1..Len(tbl) |-> [tbl[i] EXCEPT ![c] = StrOf(tbl[i][c], isFloat)]]

create_dim_product(t) ==
    LET product == AsTypeStr(t.product, "category_id")
        category == AsTypeStr(AsTypeStr(t.product_category, "category_id"), "parent_id")
        parent_cats == [i \in 1..Len(category) |->
                           [parent_id |-> category[i].category_id,
                            parent_category_name |-> category[i].name]]
        categories_enriched ==
            LeftMerge(category, parent_cats, "parent_id", "parent_id",
                      {"parent_id", "parent_category_name"})
        merged == LeftMerge(product, categories_enriched, "category_id", "category_id",
                            {"category_id", "parent_id", "name", "parent_category_name"})
        df == [i \in 1..Len(merged) |->
                  [product_key |-> merged[i].product_id,
                   created_at |-> merged[i].created_at,
                   category_name |-> FillNa(merged[i].name, SinCategoria),
                   parent_category_name |->
                       FillNa(merged[i].parent_category_name, SinCategoria)]]
    IN [cols |-> <<"id", "product_key", "sku", "name", "list_price", "status",
                   "created_at", "category_name", "parent_category_name">>,
        rows |-> AssignId(SortValues(df, "product_key"))]

create_dim_store(t) ==
    LET store_addr == LeftMerge(t.store, t.address, "address_id", "address_id",
                                {"address_id", "province_id", "created_at"})
        merged == LeftMerge(store_addr, t.province, "province_id", "province_id",
                            {"province_id", "name"})
        df == [i \in 1..Len(merged) |->
                  [store_key |-> merged[i].store_id,
                   province_name |-> merged[i].name,
                   created_at |-> merged[i].created_at]]
    IN [cols |-> <<"id", "store_key", "name", "line", "city", "province_name",
                   "province_code", "postal_code", "country_code", "created_at">>,
        rows |-> AssignId(SortValues(df, "store_key"))]

-----------------------------------------------------------------------------
(* Fact builders *)

\* the sentinel of an unknown relational key
Unknown == -1

\* the key left as the merge gave it
CleanKeyKept(x) == x

\* df[c].fillna(-1).astype(int), one cell
CleanKey(x) == FillNa(x, Unknown)

create_fact_sales_order(t, dim_calendar) ==
    LET df == t.sales_order
        order_date_id == _get_date_id(Column(df, "order_date"), dim_calendar)
        order_time == _get_time(Column(df, "order_date"))
    IN [cols |-> <<"id", "customer_id", "channel_id", "store_id", "order_date_id",
                   "order_time", "billing_address_id", "shipping_address_id",
                   "status_order", "currency_code", "subtotal", "tax_amount",
                   "shipping_fee", "total_amount">>,
        rows |-> [i \in 1..Len(df) |->
                    [id |-> df[i].order_id,
                     customer_id |-> df[i].customer_id,
                     channel_id |-> df[i].channel_id,
                     store_id |-> CleanKey(df[i].store_id),
                     order_date_id |-> AlignedCell(order_date_id, i),
                     order_time |-> AlignedCell(order_time, i),
                     billing_address_id |-> CleanKey(df[i].billing_address_id),
                     shipping_address_id |-> CleanKey(df[i].shipping_address_id)]]]

\* data['sales_order'][[...]]: the header columns a fact joins in
OrderHeader(t, cols) ==
    [i \in 1..Len(t.sales_order) |-> [c \in cols |-> t.sales_order[i][c]]]

create_fact_sales_order_item(t, dim_calendar) ==
    LET hcols == {"order_id", "customer_id", "channel_id", "store_id", "order_date"}
        df == LeftMerge(t.sales_order_item, OrderHeader(t, hcols),
                        "order_id", "order_id", hcols)
        order_date_id == _get_date_id(Column(df, "order_date"), dim_calendar)
    IN [cols |-> <<"id", "order_id", "customer_id", "channel_id", "store_id",
                   "product_id", "order_date_id", "quantity", "unit_price",
                   "discount_amount", "line_total">>,
        rows |-> [i \in 1..Len(df) |->
                    [id |-> df[i].order_item_id,
                     order_id |-> df[i].order_id,
                     customer_id |-> CleanKey(df[i].customer_id),
                     channel_id |-> CleanKey(df[i].channel_id),
                     store_id |-> CleanKey(df[i].store_id),
                     product_id |-> CleanKey(df[i].product_id),
                     order_date_id |-> AlignedCell(order_date_id, i)]]]

create_fact_payment(t, dim_calendar) ==
    LET hcols == {"order_id", "customer_id", "billing_address_id", "channel_id",
                  "store_id"}
        df == LeftMerge(t.payment, OrderHeader(t, hcols), "order_id", "order_id", hcols)
        paid_at_date_id == _get_date_id(Column(df, "paid_at"), dim_calendar)
        paid_at_time == _get_time(Column(df, "paid_at"))
    IN [cols |-> <<"id", "customer_id", "billing_address_id", "channel_id",
                   "store_id", "method", "status_payment", "amount",
                   "paid_at_date_id", "paid_at_time", "transaction_ref">>,
        rows |-> [i \in 1..Len(df) |->
                    [id |-> df[i].payment_id,
                     customer_id |-> CleanKey(df[i].customer_id),
                     billing_address_id |-> CleanKey(df[i].billing_address_id),
                     channel_id |-> CleanKey(df[i].channel_id),
                     store_id |-> CleanKey(df[i].store_id),
                     paid_at_date_id |-> AlignedCell(paid_at_date_id, i),
                     paid_at_time |-> AlignedCell(paid_at_time, i)]]]

\* TimedeltaDays computed on the dates, the times of day dropped first
TimedeltaDaysOfDates(delivered_at, shipped_at) ==
    IF delivered_at = NaN \/ shipped_at = NaN THEN NaN
    ELSE (delivered_at \div TicksPerDay) - (shipped_at \div TicksPerDay)

\* (delivered_at - shipped_at).dt.days, one row: the days component of the
\* timedelta, which is its floor in whole days; NaT on either side gives NaN
TimedeltaDays(delivered_at, shipped_at) ==
    IF delivered_at = NaN \/ shipped_at = NaN THEN NaN
    ELSE LET d == delivered_at - shipped_at
         IN IF d >= 0 THEN d \div TicksPerDay
            ELSE 0 - ((0 - d + TicksPerDay - 1) \div TicksPerDay)

create_fact_shipment(t, dim_calendar) ==
    LET hcols == {"order_id", "customer_id", "shipping_address_id", "channel_id"}
        merged == LeftMerge(t.shipment, OrderHeader(t, hcols),
                            "order_id", "order_id", hcols)
        df == [i \in 1..Len(merged) |->
                  [merged[i] EXCEPT !.shipped_at = ToDatetime(@),
                                    !.delivered_at = ToDatetime(@)]]
        shipped_at_date_id == _get_date_id(Column(df, "shipped_at"), dim_calendar)
        delivered_at_date_id == _get_date_id(Column(df, "delivered_at"), dim_calendar)
        shipped_at_time == _get_time(Column(df, "shipped_at"))
        delivered_at_time == _get_time(Column(df, "delivered_at"))
    IN [cols |-> <<"id", "customer_id", "shipping_address_id", "channel_id",
                   "carrier", "shipped_at_date_id", "shipped_at_time",
                   "delivered_at_date_id", "delivered_at_time",
                   "tracking_number", "dias_de_entrega">>,
        rows |-> [i \in 1..Len(df) |->
                    [id |-> df[i].shipment_id,
                     customer_id |-> CleanKey(df[i].customer_id),
                     shipping_address_id |-> CleanKey(df[i].shipping_address_id),
                     channel_id |-> CleanKey(df[i].channel_id),
                     shipped_at_date_id |-> AlignedCell(shipped_at_date_id, i),
                     shipped_at_time |-> AlignedCell(shipped_at_time, i),
                     delivered_at_date_id |-> AlignedCell(delivered_at_date_id, i),
                     delivered_at_time |-> AlignedCell(delivered_at_time, i),
                     dias_de_entrega |->
                         TimedeltaDays(df[i].delivered_at, df[i].shipped_at)]]]

create_fact_web_session(t, dim_calendar) ==
    LET df == t.web_session
        started_at_date_id == _get_date_id(Column(df, "started_at"), dim_calendar)
        ended_at_date_id == _get_date_id(Column(df, "ended_at"), dim_calendar)
        started_at_time == _get_time(Column(df, "started_at"))
        ended_at_time == _get_time(Column(df, "ended_at"))
    IN [cols |-> <<"id", "customer_id", "started_at_date_id", "started_at_time",
                   "ended_at_date_id", "ended_at_time", "source", "device">>,
        rows |-> [i \in 1..Len(df) |->
                    [id |-> df[i].session_id,
                     customer_id |-> CleanKey(df[i].customer_id),
                     started_at_date_id |-> AlignedCell(started_at_date_id, i),
                     started_at_time |-> AlignedCell(started_at_time, i),
                     ended_at_date_id |-> AlignedCell(ended_at_date_id, i),
                     ended_at_time |-> AlignedCell(ended_at_time, i)]]]

create_fact_nps_response(t, dim_calendar) ==
    LET df == t.nps_response
        responded_at_date_id == _get_date_id(Column(df, "responded_at"), dim_calendar)
        responded_at_time == _get_time(Column(df, "responded_at"))
    IN [cols |-> <<"id", "customer_id", "channel_id", "responded_at_date_id",
                   "responded_at_time", "score">>,
        rows |-> [i \in 1..Len(df) |->
                    [id |-> df[i].nps_id,
                     customer_id |-> CleanKey(df[i].customer_id),
                     channel_id |-> CleanKey(df[i].channel_id),
                     responded_at_date_id |-> AlignedCell(responded_at_date_id, i),
                     responded_at_time |-> AlignedCell(responded_at_time, i)]]]

-----------------------------------------------------------------------------
(* Transformation orchestrator *)

\* the sources extract_all_data loads, in its order
CSV_SOURCES == <<"address", "channel", "customer", "nps_response", "payment",
                 "product", "product_category", "province", "sales_order",
                 "sales_order_item", "shipment", "store", "web_session">>

SourceNames == {CSV_SOURCES[i] : i \in 1..Len(CSV_SOURCES)}

\* the builders transform_all_data calls, in its order; each names the key
\* of dw_tables it fills
Builders == <<"dim_calendar", "dim_customer", "dim_product", "dim_channel",
              "dim_address", "dim_store", "fact_sales_order",
              "fact_sales_order_item", "fact_payment", "fact_shipment",
              "fact_web_session", "fact_nps_response">>

BuilderNames == {Builders[i] : i \in 1..Len(Builders)}

IndexOf(b) == CHOOSE i \in 1..Len(Builders) : Builders[i] = b

\* AfterBuilder returning one builder early
AfterBuilderEarly(b) ==
    IF IndexOf(b) < Len(Builders) - 1 THEN Builders[IndexOf(b) + 1] ELSE "return"

\* the statement after builder b: the next builder, or the return
AfterBuilder(b) ==
    IF IndexOf(b) < Len(Builders) THEN Builders[IndexOf(b) + 1] ELSE "return"

\* the source tables builder b subscripts out of data (data['...'])
Reads(b) ==
    CASE b = "dim_calendar" ->
            {CalendarSources[k][1] : k \in 1..Len(CalendarSources)}
      [] b = "dim_customer" -> {"customer"}
      [] b = "dim_product" -> {"product", "product_category"}
      [] b = "dim_channel" -> {"channel"}
      [] b = "dim_address" -> {"address", "province"}
      [] b = "dim_store" -> {"store", "address", "province"}
      [] b = "fact_sales_order" -> {"sales_order"}
      [] b = "fact_sales_order_item" -> {"sales_order_item", "sales_order"}
      [] b = "fact_payment" -> {"payment", "sales_order"}
      [] b = "fact_shipment" -> {"shipment", "sales_order"}
      [] b = "fact_web_session" -> {"web_session"}
      [] b = "fact_nps_response" -> {"nps_response"}

\* the table builder b returns, given the source tables and the dw_tables
\* built so far (the facts read dw_tables['dim_calendar'])
Build(b, t, dw) ==
    CASE b = "dim_calendar" -> create_dim_calendar(t)
      [] b = "dim_customer" -> create_dim_customer(t)
      [] b = "dim_product" -> create_dim_product(t)
      [] b = "dim_channel" -> create_dim_channel(t)
      [] b = "dim_address" -> create_dim_address(t)
      [] b = "dim_store" -> create_dim_store(t)
      [] b = "fact_sales_order" -> create_fact_sales_order(t, dw.dim_calendar)
      [] b = "fact_sales_order_item" ->
            create_fact_sales_order_item(t, dw.dim_calendar)
      [] b = "fact_payment" -> create_fact_payment(t, dw.dim_calendar)
      [] b = "fact_shipment" -> create_fact_shipment(t, dw.dim_calendar)
      [] b = "fact_web_session" -> create_fact_web_session(t, dw.dim_calendar)
      [] b = "fact_nps_response" -> create_fact_nps_response(t, dw.dim_calendar)

\* MissingTableOutcome with the exception caught and None returned
MissingTableCaught == "None"

\* how a subscript data['x'] of a table that is not in data ends the call
MissingTableOutcome == "KeyError"

\* if data is None: return None
ReturnNone ==
    /\ pc = "entry"
    /\ data.isNone
    /\ pc' = "returned"
    /\ result' = "None"
    /\ UNCHANGED <<data, dw_tables, main>>

\* dw_tables = {}
Begin ==
    /\ pc = "entry"
    /\ ~data.isNone
    /\ pc' = Builders[1]
    /\ dw_tables' = <<>>
    /\ UNCHANGED <<data, result, main>>

\* the frames builder b was handed, after it returned, had it substituted
\* -1 for the null keys of the source frame itself instead of its copy
InputsAfterInPlace(b, t, dw) ==
    [tables |-> IF b = "fact_sales_order"
                THEN [t EXCEPT !.sales_order =
                        [i \in 1..Len(t.sales_order) |->
                            [t.sales_order[i] EXCEPT
                               !.store_id = FillNa(t.sales_order[i].store_id, Unknown)]]]
                ELSE t,
     dw |-> dw]

\* the frames builder b was handed (the source tables, and the tables built
\* so far, of which a fact builder gets dim_calendar), after it returned:
\* every builder takes data[...].copy() or a column selection, which is a new
\* frame, and _get_date_id merges the selection dim_calendar[['date', 'id']],
\* so every assignment, cast, rename and fillna lands on a frame of its own
InputsAfter(b, t, dw) == [tables |-> t, dw |-> dw]

\* dw_tables[b] = create_b(data[, dim_calendar])
RunBuilder(b) ==
    /\ pc = b
    /\ Reads(b) \subseteq DOMAIN data.tables
    /\ LET after == InputsAfter(b, data.tables, dw_tables)
       IN /\ data' = [data EXCEPT !.tables = after.tables]
          /\ dw_tables' = after.dw @@ (b :> Build(b, data.tables, dw_tables))
    /\ pc' = AfterBuilder(b)
    /\ UNCHANGED <<result, main>>

BuildDimCalendar == RunBuilder("dim_calendar")
BuildDimCustomer == RunBuilder("dim_customer")
BuildDimProduct == RunBuilder("dim_product")
BuildDimChannel == RunBuilder("dim_channel")
BuildDimAddress == RunBuilder("dim_address")
BuildDimStore == RunBuilder("dim_store")
BuildFactSalesOrder == RunBuilder("fact_sales_order")
BuildFactSalesOrderItem == RunBuilder("fact_sales_order_item")
BuildFactPayment == RunBuilder("fact_payment")
BuildFactShipment == RunBuilder("fact_shipment")
BuildFactWebSession == RunBuilder("fact_web_session")
BuildFactNpsResponse == RunBuilder("fact_nps_response")

\* a builder subscripts a table the snapshot does not hold: the exception
\* leaves transform_all_data, which has no handler
RaiseKeyError ==
    /\ pc \in BuilderNames
    /\ ~(Reads(pc) \subseteq DOMAIN data.tables)
    /\ pc' = "raised"
    /\ result' = MissingTableOutcome
    /\ UNCHANGED <<data, dw_tables, main>>

\* return dw_tables
ReturnTables ==
    /\ pc = "return"
    /\ pc' = "returned"
    /\ result' = "dw_tables"
    /\ UNCHANGED <<data, dw_tables, main>>

Next ==
    \/ ReturnNone
    \/ Begin
    \/ BuildDimCalendar
    \/ BuildDimCustomer
    \/ BuildDimProduct
    \/ BuildDimChannel
    \/ BuildDimAddress
    \/ BuildDimStore
    \/ BuildFactSalesOrder
    \/ BuildFactSalesOrderItem
    \/ BuildFactPayment
    \/ BuildFactShipment
    \/ BuildFactWebSession
    \/ BuildFactNpsResponse
    \/ RaiseKeyError
    \/ ReturnTables

-----------------------------------------------------------------------------
(* Source snapshots *)

Customer(k, created) == [customer_id |-> k, created_at |-> created]
Channel(k) == [channel_id |-> k]
Province(k, n) == [province_id |-> k, name |-> n]
Address(k, p, created) == [address_id |-> k, province_id |-> p, created_at |-> created]
Category(k, parent, n) == [category_id |-> k, parent_id |-> parent, name |-> n]
Product(k, c, created) == [product_id |-> k, category_id |-> c, created_at |-> created]
Store(k, a) == [store_id |-> k, address_id |-> a]
SalesOrder(k, cu, ch, st, ba, sa, d) ==
    [order_id |-> k, customer_id |-> cu, channel_id |-> ch, store_id |-> st,
     billing_address_id |-> ba, shipping_address_id |-> sa, order_date |-> d]
SalesOrderItem(k, o, p) == [order_item_id |-> k, order_id |-> o, product_id |-> p]
Payment(k, o, d) == [payment_id |-> k, order_id |-> o, paid_at |-> d]
Shipment(k, o, s, d) ==
    [shipment_id |-> k, order_id |-> o, shipped_at |-> s, delivered_at |-> d]
WebSession(k, cu, s, e) ==
    [session_id |-> k, customer_id |-> cu, started_at |-> s, ended_at |-> e]
NpsResponse(k, cu, ch, d) ==
    [nps_id |-> k, customer_id |-> cu, channel_id |-> ch, responded_at |-> d]

\* a snapshot of one row per table with every key present and no timestamp
BaseTables ==
    [address |-> <<Address(1, 1, NaN)>>,
     channel |-> <<Channel(1)>>,
     customer |-> <<Customer(1, NaN)>>,
     nps_response |-> <<NpsResponse(1, 1, 1, NaN)>>,
     payment |-> <<Payment(1, 1, NaN)>>,
     product |-> <<Product(1, 1, NaN)>>,
     product_category |-> <<Category(1, NaN, 1)>>,
     province |-> <<Province(1, 1)>>,
     sales_order |-> <<SalesOrder(1, 1, 1, 1, 1, 1, NaN)>>,
     sales_order_item |-> <<SalesOrderItem(1, 1, 1)>>,
     shipment |-> <<Shipment(1, 1, NaN, NaN)>>,
     store |-> <<Store(1, 1)>>,
     web_session |-> <<WebSession(1, 1, NaN, NaN)>>]

Snapshot(t) == [isNone |-> FALSE, tables |-> t]
NoSnapshot == [isNone |-> TRUE, tables |-> <<>>]

\* the snapshot t without the tables in gone
Without(t, gone) == [n \in (DOMAIN t) \ gone |-> t[n]]

\* main (tp_final.py) seen from transform_all_data called on its own: main
\* is not on the stack, no file of raw/ is read and none of dw/ is written
NotRunning ==
    [pc |-> "none", files |-> [readable |-> {}, tables |-> <<>>],
     success |-> TRUE, calls |-> <<>>, written |-> {}]

\* transform_all_data is entered with data bound, nothing built, nothing
\* returned
Entry ==
    /\ pc = "entry"
    /\ dw_tables = <<>>
    /\ result = "pending"
    /\ main = NotRunning

\* the snapshots every specification starts from besides its own: no
\* snapshot at all, and a snapshot short of one table
EdgeSnapshot ==
    \/ data = NoSnapshot
    \/ \E n \in SourceNames : data = Snapshot(Without(BaseTables, {n}))

\* the timestamp columns of the snapshot: the nine of CalendarSources and
\* web_session.ended_at, which only create_fact_web_session reads
DateSlots == CalendarSources \o << <<"web_session", "ended_at">> >>

SlotOf(tbl, col) == CHOOSE k \in 1..Len(DateSlots) : DateSlots[k] = <<tbl, col>>

\* BaseTables with the timestamp cell of slot k set to dc[k]
DatedTables(dc) ==
    [BaseTables EXCEPT
        !.sales_order = <<SalesOrder(1, 1, 1, 1, 1, 1, dc[SlotOf("sales_order", "order_date")])>>,
        !.web_session = <<WebSession(1, 1, dc[SlotOf("web_session", "started_at")],
                                     dc[SlotOf("web_session", "ended_at")])>>,
        !.nps_response = <<NpsResponse(1, 1, 1, dc[SlotOf("nps_response", "responded_at")])>>,
        !.payment = <<Payment(1, 1, dc[SlotOf("payment", "paid_at")])>>,
        !.shipment = <<Shipment(1, 1, dc[SlotOf("shipment", "shipped_at")],
                                dc[SlotOf("shipment", "delivered_at")])>>,
        !.customer = <<Customer(1, dc[SlotOf("customer", "created_at")])>>,
        !.address = <<Address(1, 1, dc[SlotOf("address", "created_at")])>>,
        !.product = <<Product(1, 1, dc[SlotOf("product", "created_at")])>>]

\* snapshots in which two timestamp cells take any value (parseable,
\* unparseable or missing) and the others are missing
DateSnapshot ==
    \E j \in 1..Len(DateSlots) : \E i \in 1..(j - 1) : \E x, y \in DateCells :
        data = Snapshot(DatedTables([k \in 1..Len(DateSlots) |->
                           IF k = i THEN x ELSE IF k = j THEN y ELSE NaN]))

\* snapshots of two rows per timestamped table: one timestamp cell of the
\* first rows takes any value, the other first-row cells are all missing or
\* all unparseable, and every timestamp cell of the second rows is the same
TwoRowDateSnapshot ==
    \E i \in 1..Len(DateSlots) : \E x, y \in DateCells : \E z \in {NaN, BadText} :
        data = Snapshot(
            [DatedTables([k \in 1..Len(DateSlots) |-> IF k = i THEN x ELSE z])
             EXCEPT
              !.sales_order = @ \o <<SalesOrder(2, 1, 1, 1, 1, 1, y)>>,
              !.sales_order_item = @ \o <<SalesOrderItem(2, 2, 1)>>,
              !.web_session = @ \o <<WebSession(2, 1, y, y)>>,
              !.nps_response = @ \o <<NpsResponse(2, 1, 1, y)>>,
              !.payment = @ \o <<Payment(2, 2, y)>>,
              !.shipment = @ \o <<Shipment(2, 2, y, y)>>])

InitDates == Entry /\ (DateSnapshot \/ TwoRowDateSnapshot \/ EdgeSnapshot)

SpecDates == InitDates /\ [][Next]_vars

\* the sequences of n distinct natural keys, in any order
KeySeqs(n) == {ks \in [1..n -> Keys] : \A i, j \in 1..n : i # j => ks[i] # ks[j]}

\* the sequences of n key cells, null or not
CellSeqs(n) == [1..n -> KeyCells]

\* the keys n, n-1, ..., 1: a table loaded in descending key order
Descending(n, i) == n + 1 - i

ProvinceTables ==
    {<<>>,
     <<Province(1, 1)>>,
     <<Province(2, 2), Province(1, 1)>>,
     <<Province(1, 1), Province(1, 2)>>}

AddressTables ==
    {<<>>,
     <<Address(1, 1, NaN)>>,
     <<Address(1, NaN, NaN), Address(2, 2, NaN)>>,
     <<Address(2, 3, NaN), Address(1, 1, NaN)>>}

CustomerSnapshot ==
    \E n \in 0..MaxRows : \E ks \in KeySeqs(n) :
        data = Snapshot([BaseTables EXCEPT
                   !.customer = [i \in 1..n |-> Customer(ks[i], NaN)]])

ChannelSnapshot ==
    \E n \in 0..MaxRows : \E ks \in KeySeqs(n) :
        data = Snapshot([BaseTables EXCEPT
                   !.channel = [i \in 1..n |-> Channel(ks[i])]])

AddressSnapshot ==
    \E n \in 0..MaxRows : \E ks \in KeySeqs(n) : \E ps \in CellSeqs(n) :
      \E provinces \in ProvinceTables :
        data = Snapshot([BaseTables EXCEPT
                   !.address = [i \in 1..n |-> Address(ks[i], ps[i], NaN)],
                   !.province = provinces])

ProductSnapshot ==
    \E n, m \in 0..MaxRows : \E cs \in CellSeqs(n) : \E ps \in CellSeqs(m) :
        data = Snapshot([BaseTables EXCEPT
                   !.product = [i \in 1..n |-> Product(Descending(n, i), cs[i], NaN)],
                   !.product_category = [i \in 1..m |-> Category(i, ps[i], i)]])

StoreSnapshot ==
    \E n \in 0..MaxRows : \E as \in CellSeqs(n) :
      \E addresses \in AddressTables : \E provinces \in ProvinceTables :
        data = Snapshot([BaseTables EXCEPT
                   !.store = [i \in 1..n |-> Store(Descending(n, i), as[i])],
                   !.address = addresses,
                   !.province = provinces])

InitDims ==
    Entry /\ (CustomerSnapshot \/ ChannelSnapshot \/ AddressSnapshot
                \/ ProductSnapshot \/ StoreSnapshot \/ EdgeSnapshot)

SpecDims == InitDims /\ [][Next]_vars

\* snapshots of one order whose five relational keys are null or not, and
\* of an item, a payment and a shipment that name that order, another
\* order or none
HeaderKeySnapshot ==
    \E cu, ch, st, ba, sa, o \in KeyCells :
        data = Snapshot([BaseTables EXCEPT
                   !.sales_order = <<SalesOrder(1, cu, ch, st, ba, sa, NaN)>>,
                   !.sales_order_item = <<SalesOrderItem(1, o, 1)>>,
                   !.payment = <<Payment(1, o, NaN)>>,
                   !.shipment = <<Shipment(1, o, NaN, NaN)>>])

\* snapshots whose item, web session and nps response carry null or
\* non-null keys of their own
OwnKeySnapshot ==
    \E a, b \in KeyCells :
        data = Snapshot([BaseTables EXCEPT
                   !.sales_order_item = <<SalesOrderItem(1, 1, a)>>,
                   !.web_session = <<WebSession(1, a, NaN, NaN)>>,
                   !.nps_response = <<NpsResponse(1, a, b, NaN)>>])

\* snapshots whose sales_order file holds the order 1 on two rows, with an
\* item, a payment and a shipment that name that order or another
DuplicateHeaderSnapshot ==
    \E cu, st, o \in KeyCells :
        data = Snapshot([BaseTables EXCEPT
                   !.sales_order = <<SalesOrder(1, 1, 1, 1, 1, 1, NaN),
                                     SalesOrder(1, cu, 1, st, 1, 1, NaN)>>,
                   !.sales_order_item = <<SalesOrderItem(1, o, 1),
                                          SalesOrderItem(2, 1, 1)>>,
                   !.payment = <<Payment(1, o, NaN)>>,
                   !.shipment = <<Shipment(1, o, NaN, NaN)>>])

InitFacts ==
    Entry /\ (HeaderKeySnapshot \/ OwnKeySnapshot \/ DuplicateHeaderSnapshot
                \/ EdgeSnapshot)

SpecFacts == InitFacts /\ [][Next]_vars

\* the snapshots that hold any subset of the thirteen tables
PartialSnapshot ==
    \E gone \in SUBSET SourceNames : data = Snapshot(Without(BaseTables, gone))

Init == Entry /\ (PartialSnapshot \/ CustomerSnapshot \/ ChannelSnapshot \/ EdgeSnapshot)

Spec == Init /\ [][Next]_vars

-----------------------------------------------------------------------------
(* The pipeline of main (tp_final.py): extraction, transformation, load.   *)
(* main.files is the content of raw/: readable holds the names whose       *)
(* .csv file pd.read_csv can read, tables the rows of every readable file  *)
(* that has the expected header.  A file with another header loads as a    *)
(* frame on which every column lookup raises KeyError, as the lookup of an *)
(* absent table does: it is left out of the tables of the snapshot.        *)
(* main.calls lists the tables load_to_csv was called with, main.written   *)
(* the files of dw/ that were written.                                     *)

\* extract_all_data: the dictionary of the thirteen frames, or None as soon
\* as one read raises
extract_all_data(files) ==
    IF CSV_SOURCES = SelectSeq(CSV_SOURCES, LAMBDA n : n \in files.readable)
    THEN Snapshot(files.tables)
    ELSE NoSnapshot

\* dw_tables.items(): the tables in the order they were inserted
Items(dw) == SelectSeq(Builders, LAMBDA b : b \in DOMAIN dw)

\* load_to_csv: the files of dw/ after the call; a failure to write is
\* caught and printed inside load_to_csv, and nothing is written
load_to_csv(written, name, ok) == IF ok THEN written \cup {name} ELSE written

\* where main goes when an exception leaves the try block: the except
\* clause, past every phase
AfterExceptionLoads == "load"
AfterException == "caught"

\* raw_data = extract_all_data(); if not raw_data: success = False
MainExtract ==
    /\ main.pc = "extract"
    /\ LET raw_data == extract_all_data(main.files)
       IN IF raw_data.isNone
          THEN /\ main' = [main EXCEPT !.success = FALSE, !.pc = "done"]
               /\ UNCHANGED <<data, pc>>
          ELSE /\ main' = [main EXCEPT !.pc = "transform"]
               /\ data' = raw_data
               /\ pc' = "entry"
    /\ UNCHANGED <<dw_tables, result>>

\* dw_tables = transform_all_data(raw_data) has returned;
\* if not dw_tables: success = False
MainAfterTransform ==
    /\ main.pc = "transform"
    /\ pc = "returned"
    /\ main' = IF result = "None" \/ DOMAIN dw_tables = {}
               THEN [main EXCEPT !.success = FALSE, !.pc = "done"]
               ELSE [main EXCEPT !.pc = "load"]
    /\ UNCHANGED <<data, pc, dw_tables, result>>

\* transform_all_data raised: except Exception as e
MainCaught ==
    /\ main.pc = "transform"
    /\ pc = "raised"
    /\ main' = [main EXCEPT !.pc = AfterException]
    /\ UNCHANGED <<data, pc, dw_tables, result>>

\* one turn of the loop: load_to_csv(df, f"{name}.csv")
MainLoad ==
    /\ main.pc = "load"
    /\ Len(main.calls) < Len(Items(dw_tables))
    /\ \E ok \in BOOLEAN :
         LET name == Items(dw_tables)[Len(main.calls) + 1]
         IN main' = [main EXCEPT
                       !.calls = Append(@, name),
                       !.written = load_to_csv(@, name, ok)]
    /\ UNCHANGED <<data, pc, dw_tables, result>>

\* the loop is over
MainEnd ==
    /\ main.pc = "load"
    /\ Len(main.calls) = Len(Items(dw_tables))
    /\ main' = [main EXCEPT !.pc = "done"]
    /\ UNCHANGED <<data, pc, dw_tables, result>>

NextMain ==
    \/ Next
    \/ MainExtract
    \/ MainAfterTransform
    \/ MainCaught
    \/ MainLoad
    \/ MainEnd

\* the contents of raw/ main starts from: every file right, with one or
\* two customers; one file missing; one file with another header
RawDirs ==
    {[readable |-> SourceNames, tables |-> BaseTables],
     [readable |-> SourceNames,
      tables |-> [BaseTables EXCEPT
                    !.customer = <<Customer(2, NaN), Customer(1, NaN)>>]]}
    \cup {[readable |-> SourceNames \ {n}, tables |-> Without(BaseTables, {n})] :
            n \in SourceNames}
    \cup {[readable |-> SourceNames, tables |-> Without(BaseTables, {n})] :
            n \in SourceNames}

\* main is entered: nothing extracted, transform_all_data not called
MainStart ==
    /\ pc = "idle"
    /\ data = NoSnapshot
    /\ dw_tables = <<>>
    /\ result = "pending"
    /\ \E files \in RawDirs :
         main = [pc |-> "extract", files |-> files, success |-> TRUE,
                 calls |-> <<>>, written |-> {}]

InitMain == MainStart \/ (Entry /\ EdgeSnapshot)

SpecMain == InitMain /\ [][NextMain]_vars

-----------------------------------------------------------------------------
(* Vocabulary of the properties *)

Returned == pc = "returned" /\ result = "dw_tables"

Built(b) == b \in DOMAIN dw_tables

Parses(x) == x \in Timestamps

DayOf(x) == x \div TicksPerDay

\* the days of the parseable values of the nine designated columns
DesignatedDays ==
    UNION {LET tbl == data.tables[CalendarSources[k][1]]
               col == CalendarSources[k][2]
           IN {DayOf(tbl[i][col]) : i \in {i \in 1..Len(tbl) : Parses(tbl[i][col])}} :
           k \in 1..Len(CalendarSources)}

SetMin(S) == CHOOSE d \in S : \A e \in S : d <= e
SetMax(S) == CHOOSE d \in S : \A e \in S : d >= e

-----------------------------------------------------------------------------
(* C1: when some designated timestamp column holds a parseable value,      *)
(* dim_calendar has exactly (max day - min day) + 1 rows, the i-th row is  *)
(* the day min + i - 1 and has id = i: every day of the span once, in      *)
(* ascending order, ids 1..N; a one-day span gives one row.                *)
C1_CalendarSpan ==
    Built("dim_calendar") =>
        LET days == DesignatedDays
            rows == dw_tables.dim_calendar.rows
        IN days # {} =>
             LET lo == SetMin(days)
                 hi == SetMax(days)
             IN /\ Len(rows) = (hi - lo) + 1
                /\ \A i \in 1..Len(rows) :
                     /\ rows[i].id = i
                     /\ rows[i].date = (lo + i - 1) * TicksPerDay

\* a calendar over a span of several days, built from timestamps that are
\* not at midnight
C1_Witness ==
    /\ Built("dim_calendar")
    /\ DesignatedDays # {}
    /\ SetMax(DesignatedDays) - SetMin(DesignatedDays) >= 2
    /\ Len(dw_tables.dim_calendar.rows) =
          SetMax(DesignatedDays) - SetMin(DesignatedDays) + 1
    /\ \E k \in 1..Len(CalendarSources) :
          LET x == data.tables[CalendarSources[k][1]][1][CalendarSources[k][2]]
          IN Parses(x) /\ x % TicksPerDay # 0

\* a calendar of a one-day span
C1_WitnessOneDay ==
    /\ Built("dim_calendar")
    /\ DesignatedDays # {}
    /\ SetMax(DesignatedDays) = SetMin(DesignatedDays)
    /\ Len(dw_tables.dim_calendar.rows) = 1

-----------------------------------------------------------------------------
\* the date foreign keys a fact takes from a timestamp column of its own
\* source table: <<fact, key column, source table, timestamp column>>
OwnDateKeys == <<
    <<"fact_sales_order", "order_date_id", "sales_order", "order_date">>,
    <<"fact_payment", "paid_at_date_id", "payment", "paid_at">>,
    <<"fact_shipment", "shipped_at_date_id", "shipment", "shipped_at">>,
    <<"fact_shipment", "delivered_at_date_id", "shipment", "delivered_at">>,
    <<"fact_web_session", "started_at_date_id", "web_session", "started_at">>,
    <<"fact_web_session", "ended_at_date_id", "web_session", "ended_at">>,
    <<"fact_nps_response", "responded_at_date_id", "nps_response", "responded_at">> >>

\* the order_date of the header of item i, when the item has a header
HeaderDates(i) ==
    {data.tables.sales_order[j].order_date :
        j \in {j \in 1..Len(data.tables.sales_order) :
                 data.tables.sales_order[j].order_id =
                     data.tables.sales_order_item[i].order_id}}

AllPresent == ~data.isNone /\ SourceNames \subseteq DOMAIN data.tables

(* C4: in the returned tables every date foreign key of every fact whose   *)
(* source timestamp parses is non-null (the date is found in dim_calendar). *)
C4_EveryParsedDateResolves ==
    Returned =>
        /\ \A k \in 1..Len(OwnDateKeys) :
             LET fact == dw_tables[OwnDateKeys[k][1]].rows
                 src == data.tables[OwnDateKeys[k][3]]
             IN \A i \in 1..Len(src) :
                  Parses(src[i][OwnDateKeys[k][4]]) =>
                      /\ i <= Len(fact)
                      /\ fact[i][OwnDateKeys[k][2]] # NaN
        /\ \A i \in 1..Len(data.tables.sales_order_item) :
             (\E d \in HeaderDates(i) : Parses(d)) =>
                 /\ i <= Len(dw_tables.fact_sales_order_item.rows)
                 /\ dw_tables.fact_sales_order_item.rows[i].order_date_id # NaN

-----------------------------------------------------------------------------
(* C6 as stated: in fact_shipment, when shipped_at and delivered_at both   *)
(* parse, dias_de_entrega is the delivered date minus the shipped date in  *)
(* days whatever the times of day; otherwise it is null.                   *)
C6_DateDifference ==
    Returned =>
        \A i \in 1..Len(data.tables.shipment) :
            LET s == data.tables.shipment[i].shipped_at
                d == data.tables.shipment[i].delivered_at
                dias == dw_tables.fact_shipment.rows[i].dias_de_entrega
            IN IF Parses(s) /\ Parses(d)
               THEN dias = DayOf(d) - DayOf(s)
               ELSE dias = NaN

(* C6 amended: when both parse, dias_de_entrega is the number of whole     *)
(* days elapsed from the shipped to the delivered timestamp, rounded down  *)
(* (signed, not clamped); it is the difference of the dates when the two   *)
(* times of day are equal; otherwise it is null.                           *)
C6_ElapsedWholeDays ==
    Returned =>
        \A i \in 1..Len(data.tables.shipment) :
            LET s == data.tables.shipment[i].shipped_at
                d == data.tables.shipment[i].delivered_at
                dias == dw_tables.fact_shipment.rows[i].dias_de_entrega
            IN IF Parses(s) /\ Parses(d)
               THEN /\ dias # NaN
                    /\ dias * TicksPerDay <= d - s
                    /\ d - s < (dias + 1) * TicksPerDay
                    /\ (s % TicksPerDay = d % TicksPerDay) =>
                          dias = DayOf(d) - DayOf(s)
               ELSE dias = NaN

\* a returned shipment delivered before it was shipped, at another time of
\* day: a negative number of days
C6_Witness ==
    /\ Returned
    /\ \E i \in 1..Len(data.tables.shipment) :
          LET s == data.tables.shipment[i].shipped_at
              d == data.tables.shipment[i].delivered_at
          IN /\ Parses(s) /\ Parses(d)
             /\ s % TicksPerDay # d % TicksPerDay
             /\ d < s
             /\ dw_tables.fact_shipment.rows[i].dias_de_entrega < 0

\* a returned shipment delivered three days after it was shipped, both at
\* midnight
C6_WitnessThreeDays ==
    /\ Returned
    /\ \E i \in 1..Len(data.tables.shipment) :
          /\ data.tables.shipment[i].shipped_at = 0
          /\ data.tables.shipment[i].delivered_at = 3 * TicksPerDay
          /\ dw_tables.fact_shipment.rows[i].dias_de_entrega = 3

-----------------------------------------------------------------------------
-----------------------------------------------------------------------------
\* the dimensions with a natural key: <<dimension, natural-key column,
\* source table, source key column>>
KeyedDims == <<
    <<"dim_customer", "customer_key", "customer", "customer_id">>,
    <<"dim_channel", "channel_key", "channel", "channel_id">>,
    <<"dim_address", "address_key", "address", "address_id">>,
    <<"dim_product", "product_key", "product", "product_id">>,
    <<"dim_store", "store_key", "store", "store_id">> >>

(* C2: in every dimension the ids are 1..N, the row in position i having   *)
(* id i, the natural keys ascend with the id, and the keys are those of    *)
(* the source table: the row with id i holds the i-th smallest key.        *)
C2_DenseSortedIds ==
    \A k \in 1..Len(KeyedDims) :
        Built(KeyedDims[k][1]) =>
            LET rows == dw_tables[KeyedDims[k][1]].rows
                nk == KeyedDims[k][2]
                src == data.tables[KeyedDims[k][3]]
            IN /\ \A i \in 1..Len(rows) : rows[i].id = i
               /\ \A i, j \in 1..Len(rows) : i < j => rows[i][nk] <= rows[j][nk]
               /\ {rows[i][nk] : i \in 1..Len(rows)}
                     = {src[i][KeyedDims[k][4]] : i \in 1..Len(src)}
               /\ Len(rows) >= Len(src)

\* dim_customer built from a customer table that holds key 2 before key 1
C2_Witness ==
    /\ Returned
    /\ Len(data.tables.customer) = 2
    /\ data.tables.customer[1].customer_id = 2
    /\ data.tables.customer[2].customer_id = 1
    /\ dw_tables.dim_customer.rows[1].id = 1
    /\ dw_tables.dim_customer.rows[1].customer_key = 1
    /\ dw_tables.dim_customer.rows[2].id = 2
    /\ dw_tables.dim_customer.rows[2].customer_key = 2

-----------------------------------------------------------------------------
\* the categories whose identifier is the (non-null) identifier x
CategoriesOf(x) ==
    {j \in 1..Len(data.tables.product_category) :
        x # NaN /\ data.tables.product_category[j].category_id = x}

(* C7: in dim_product a product whose category_id matches no category      *)
(* (a null category_id included) has category_name and                    *)
(* parent_category_name 'Sin Categoría'; a product whose category has no   *)
(* parent, or a parent_id matching no category, has parent_category_name   *)
(* 'Sin Categoría'; neither column is ever null.                           *)
C7_MissingCategoryLabel ==
    Built("dim_product") =>
        LET rows == dw_tables.dim_product.rows
            products == data.tables.product
            cats == data.tables.product_category
        IN /\ \A r \in 1..Len(rows) :
                rows[r].category_name # NaN /\ rows[r].parent_category_name # NaN
           /\ \A i \in 1..Len(products) :
                /\ \E r \in 1..Len(rows) : rows[r].product_key = products[i].product_id
                /\ \A r \in 1..Len(rows) :
                     rows[r].product_key = products[i].product_id =>
                        /\ CategoriesOf(products[i].category_id) = {} =>
                              /\ rows[r].category_name = SinCategoria
                              /\ rows[r].parent_category_name = SinCategoria
                        /\ (\A j \in CategoriesOf(products[i].category_id) :
                               CategoriesOf(cats[j].parent_id) = {}) =>
                              rows[r].parent_category_name = SinCategoria

\* a product with a null category_id and a product whose category_id is
\* that of no category, both labelled in both columns
C7_Witness ==
    /\ Returned
    /\ \E i, k \in 1..Len(data.tables.product) :
          /\ data.tables.product[i].category_id = NaN
          /\ data.tables.product[k].category_id # NaN
          /\ CategoriesOf(data.tables.product[k].category_id) = {}
          /\ \A r \in 1..Len(dw_tables.dim_product.rows) :
                /\ dw_tables.dim_product.rows[r].category_name = SinCategoria
                /\ dw_tables.dim_product.rows[r].parent_category_name = SinCategoria
          /\ Len(dw_tables.dim_product.rows) = 2

\* a product of a root category: the category is named, the parent labelled
C7_WitnessRoot ==
    /\ Returned
    /\ \E i \in 1..Len(data.tables.product) :
          /\ \E j \in CategoriesOf(data.tables.product[i].category_id) :
                data.tables.product_category[j].parent_id = NaN
          /\ \E r \in 1..Len(dw_tables.dim_product.rows) :
                /\ dw_tables.dim_product.rows[r].product_key =
                      data.tables.product[i].product_id
                /\ dw_tables.dim_product.rows[r].category_name # SinCategoria
                /\ dw_tables.dim_product.rows[r].parent_category_name = SinCategoria

-----------------------------------------------------------------------------
\* the relational keys a fact takes from its own source table:
\* <<fact, source table, key columns>>
OwnKeys == <<
    <<"fact_sales_order", "sales_order",
      {"customer_id", "channel_id", "store_id", "billing_address_id",
       "shipping_address_id"}>>,
    <<"fact_sales_order_item", "sales_order_item", {"order_id", "product_id"}>>,
    <<"fact_web_session", "web_session", {"customer_id"}>>,
    <<"fact_nps_response", "nps_response", {"customer_id", "channel_id"}>> >>

\* the relational keys a fact inherits from the order header:
\* <<fact, source table, key columns>>
HeaderKeys == <<
    <<"fact_sales_order_item", "sales_order_item",
      {"customer_id", "channel_id", "store_id"}>>,
    <<"fact_payment", "payment",
      {"customer_id", "billing_address_id", "channel_id", "store_id"}>>,
    <<"fact_shipment", "shipment",
      {"customer_id", "shipping_address_id", "channel_id"}>> >>

\* the values of column c in the headers of the order x
HeaderValues(x, c) ==
    {data.tables.sales_order[j][c] :
        j \in {j \in 1..Len(data.tables.sales_order) :
                 x # NaN /\ data.tables.sales_order[j].order_id = x}}

(* C3: in every returned fact table every relational foreign key is -1 in  *)
(* each row whose source value was null or absent, no such cell is null,   *)
(* and the fact has a row for every source row.                            *)
C3_NullKeysBecomeUnknown ==
    Returned =>
        /\ \A k \in 1..Len(OwnKeys) :
             LET fact == dw_tables[OwnKeys[k][1]].rows
                 src == data.tables[OwnKeys[k][2]]
             IN /\ Len(fact) = Len(src)
                /\ \A i \in 1..Len(src) : \A c \in OwnKeys[k][3] :
                     /\ fact[i][c] # NaN
                     /\ src[i][c] = NaN => fact[i][c] = -1
        /\ \A k \in 1..Len(HeaderKeys) :
             LET fact == dw_tables[HeaderKeys[k][1]].rows
                 src == data.tables[HeaderKeys[k][2]]
             IN /\ Len(fact) = Len(src)
                /\ \A i \in 1..Len(src) : \A c \in HeaderKeys[k][3] :
                     /\ fact[i][c] # NaN
                     /\ HeaderValues(src[i].order_id, c) \subseteq {NaN} =>
                           fact[i][c] = -1

-----------------------------------------------------------------------------
MissingTable == ~data.isNone /\ ~(SourceNames \subseteq DOMAIN data.tables)

(* C8 as stated: when a required source table is absent from the snapshot, *)
(* the transformation ends by returning None to its caller.                *)
C8_MissingTableReturnsNone ==
    (MissingTable /\ pc \in {"returned", "raised"}) =>
        (pc = "returned" /\ result = "None")

(* C8 amended: when a required source table is absent from a snapshot that *)
(* is not None, the transformation aborts with the KeyError of the first   *)
(* builder that reads the table: it never reaches its return, it returns   *)
(* neither a partial set of tables nor None, and the exception leaves      *)
(* transform_all_data.                                                     *)
C8_MissingTableRaises ==
    MissingTable =>
        /\ pc \notin {"return", "returned"}
        /\ result \in {"pending", "KeyError"}
        /\ (pc = "raised") = (result = "KeyError")
        /\ (pc # "raised" => ENABLED Next)
        /\ \A b \in DOMAIN dw_tables : Reads(b) \subseteq DOMAIN data.tables

\* the run over a snapshot without sales_order_item, ended by the KeyError
\* of create_fact_sales_order_item after seven tables were built
C8_Witness ==
    /\ MissingTable
    /\ "sales_order_item" \notin DOMAIN data.tables
    /\ pc = "raised"
    /\ result = "KeyError"
    /\ "fact_sales_order" \in DOMAIN dw_tables
    /\ "fact_sales_order_item" \notin DOMAIN dw_tables

-----------------------------------------------------------------------------
(* C10: transform_all_data returns None for a None snapshot without        *)
(* building a table; for a snapshot of all thirteen tables it runs to its  *)
(* return and returns exactly the twelve named tables, never None.         *)
C10_NoneOrTwelveTables ==
    /\ data.isNone =>
          /\ pc \in {"entry", "returned"}
          /\ dw_tables = <<>>
          /\ (pc = "entry" => ENABLED Next)
          /\ (pc = "returned" => result = "None")
    /\ AllPresent =>
          /\ pc # "raised"
          /\ result # "None"
          /\ (pc # "returned" => ENABLED Next)
          /\ (pc = "returned" =>
                /\ result = "dw_tables"
                /\ DOMAIN dw_tables =
                      {"dim_calendar", "dim_customer", "dim_product",
                       "dim_channel", "dim_address", "dim_store",
                       "fact_sales_order", "fact_sales_order_item",
                       "fact_payment", "fact_shipment", "fact_web_session",
                       "fact_nps_response"})

\* the return of the twelve tables for a full snapshot of two customers
C10_Witness ==
    /\ AllPresent
    /\ Returned
    /\ Cardinality(DOMAIN dw_tables) = 12
    /\ Len(data.tables.customer) = 2

\* the return of None for no snapshot
C10_WitnessNone == data.isNone /\ pc = "returned" /\ result = "None"

-----------------------------------------------------------------------------
\* extract_all_data has returned None to main
ExtractionFailed == main.pc \notin {"none", "extract"} /\ data.isNone

\* transform_all_data, called by main, has returned None or has raised
TransformFailed ==
    /\ main.pc # "none"
    /\ \/ pc = "raised"
       \/ pc = "returned" /\ result = "None"

(* C11: in a run of main, load_to_csv is called only after                 *)
(* transform_all_data has returned all twelve tables, and when extraction  *)
(* returns None, or transformation returns None or raises, load_to_csv is  *)
(* never called and no file of dw/ is written.                             *)
C11_NoLoadAfterFatal ==
    /\ (main.pc = "load" \/ main.calls # <<>> \/ main.written # {}) =>
          /\ pc = "returned"
          /\ result = "dw_tables"
          /\ DOMAIN dw_tables = BuilderNames
    /\ (ExtractionFailed \/ TransformFailed) =>
          /\ main.pc \in {"transform", "done", "caught"}
          /\ main.calls = <<>>
          /\ main.written = {}

\* main has caught the exception of a transformation that raised after it
\* had built some tables, and has loaded nothing
C11_Witness ==
    /\ main.pc = "caught"
    /\ pc = "raised"
    /\ DOMAIN dw_tables # {}
    /\ main.calls = <<>>

\* main is done after an extraction that returned None
C11_WitnessExtraction ==
    /\ main.pc = "done"
    /\ ExtractionFailed
    /\ ~main.success
    /\ main.calls = <<>>

\* main is done after loading the twelve tables
C11_WitnessLoaded ==
    /\ main.pc = "done"
    /\ Len(main.calls) = Len(Builders)
    /\ main.written = BuilderNames

-----------------------------------------------------------------------------
-----------------------------------------------------------------------------
\* the rows of the built calendar whose date is the date part of x
CalendarHits(x) ==
    {j \in 1..Len(dw_tables.dim_calendar.rows) :
        Parses(x) /\ dw_tables.dim_calendar.rows[j].date = DayOf(x) * TicksPerDay}

(* C13: against the returned calendar, _get_date_id gives one value per    *)
(* row of every timestamp column, in the order of the rows: the id of the  *)
(* one calendar row of the row's date, or null when the value does not     *)
(* parse or the calendar has no such date.                                 *)
C13_OneIdPerRowInOrder ==
    Returned =>
        \A k \in 1..Len(DateSlots) :
            LET date_series == Column(data.tables[DateSlots[k][1]], DateSlots[k][2])
                ids == _get_date_id(date_series, dw_tables.dim_calendar)
            IN /\ Len(ids) = Len(date_series)
               /\ \A i \in 1..Len(date_series) :
                    LET hits == CalendarHits(date_series[i])
                    IN IF hits = {} THEN ids[i] = NaN
                       ELSE /\ Cardinality(hits) = 1
                            /\ \A j \in hits :
                                 ids[i] = dw_tables.dim_calendar.rows[j].id

\* a returned fact_payment whose first row has an unparseable paid_at and a
\* null date key and whose second row has a resolved one
C13_Witness ==
    /\ Returned
    /\ Len(data.tables.payment) = 2
    /\ data.tables.payment[1].paid_at = BadText
    /\ Parses(data.tables.payment[2].paid_at)
    /\ dw_tables.fact_payment.rows[1].paid_at_date_id = NaN
    /\ CalendarHits(data.tables.payment[2].paid_at) # {}
    /\ \A j \in CalendarHits(data.tables.payment[2].paid_at) :
          dw_tables.fact_payment.rows[2].paid_at_date_id =
             dw_tables.dim_calendar.rows[j].id

-----------------------------------------------------------------------------
\* <<fact, source table, natural key of the source>>
FactSources == <<
    <<"fact_sales_order", "sales_order", "order_id">>,
    <<"fact_sales_order_item", "sales_order_item", "order_item_id">>,
    <<"fact_payment", "payment", "payment_id">>,
    <<"fact_shipment", "shipment", "shipment_id">>,
    <<"fact_web_session", "web_session", "session_id">>,
    <<"fact_nps_response", "nps_response", "nps_id">> >>

\* <<fact, time column, source table, timestamp column>>
FactTimes == <<
    <<"fact_sales_order", "order_time", "sales_order", "order_date">>,
    <<"fact_payment", "paid_at_time", "payment", "paid_at">>,
    <<"fact_shipment", "shipped_at_time", "shipment", "shipped_at">>,
    <<"fact_shipment", "delivered_at_time", "shipment", "delivered_at">>,
    <<"fact_web_session", "started_at_time", "web_session", "started_at">>,
    <<"fact_web_session", "ended_at_time", "web_session", "ended_at">>,
    <<"fact_nps_response", "responded_at_time", "nps_response", "responded_at">> >>

\* the date key of the timestamp x against the built calendar: the id of
\* the row of its date, null without one
DateKeyOf(x) ==
    IF CalendarHits(x) = {} THEN NaN
    ELSE dw_tables.dim_calendar.rows[CHOOSE j \in CalendarHits(x) : TRUE].id

\* the time of day of the timestamp x, midnight when it does not parse
TimeOf(x) == IF Parses(x) THEN x % TicksPerDay ELSE 0

(* C14: every returned fact has one row per row of its source table, in    *)
(* source order, with the source natural key as id, and the date keys and  *)
(* times of a row are those of the timestamps of its source row.           *)
C14_OneRowPerSourceRow ==
    Returned =>
        /\ \A k \in 1..Len(FactSources) :
             LET fact == dw_tables[FactSources[k][1]].rows
                 src == data.tables[FactSources[k][2]]
             IN /\ Len(fact) = Len(src)
                /\ \A i \in 1..Len(src) : fact[i].id = src[i][FactSources[k][3]]
        /\ \A k \in 1..Len(OwnDateKeys) :
             LET fact == dw_tables[OwnDateKeys[k][1]].rows
                 src == data.tables[OwnDateKeys[k][3]]
             IN \A i \in 1..Len(src) :
                  fact[i][OwnDateKeys[k][2]] = DateKeyOf(src[i][OwnDateKeys[k][4]])
        /\ \A k \in 1..Len(FactTimes) :
             LET fact == dw_tables[FactTimes[k][1]].rows
                 src == data.tables[FactTimes[k][3]]
             IN \A i \in 1..Len(src) :
                  fact[i][FactTimes[k][2]] = TimeOf(src[i][FactTimes[k][4]])

-----------------------------------------------------------------------------
\* the provinces whose identifier is the (non-null) identifier x
ProvincesOf(x) ==
    {j \in 1..Len(data.tables.province) :
        x # NaN /\ data.tables.province[j].province_id = x}

(* C15: every dimension has exactly one row per natural key of its source  *)
(* table, whatever the joined tables hold: the keys of the dimension are   *)
(* those of the source, no key is on two rows, the number of rows is the   *)
(* number of distinct keys, and an address whose province matches no       *)
(* province row is kept with a null province_name.                         *)
C15_OneRowPerNaturalKey ==
    /\ \A k \in 1..Len(KeyedDims) :
         Built(KeyedDims[k][1]) =>
            LET rows == dw_tables[KeyedDims[k][1]].rows
                nk == KeyedDims[k][2]
                src == data.tables[KeyedDims[k][3]]
                keys == {src[i][KeyedDims[k][4]] : i \in 1..Len(src)}
            IN /\ {rows[i][nk] : i \in 1..Len(rows)} = keys
               /\ Len(rows) = Cardinality(keys)
               /\ \A i, j \in 1..Len(rows) : rows[i][nk] = rows[j][nk] => i = j
    /\ Built("dim_address") =>
         \A i \in 1..Len(data.tables.address) :
            ProvincesOf(data.tables.address[i].province_id) = {} =>
               \E j \in 1..Len(dw_tables.dim_address.rows) :
                  /\ dw_tables.dim_address.rows[j].address_key =
                        data.tables.address[i].address_id
                  /\ dw_tables.dim_address.rows[j].province_name = NaN

-----------------------------------------------------------------------------
(* C16: in dim_product a product whose category_id is the identifier of a  *)
(* category c has c's name as category_name, and the name of the category  *)
(* whose identifier is c's parent_id as parent_category_name, whether or   *)
(* not the identifier columns hold nulls next to the integers.             *)
C16_SameIdentifierMatches ==
    Built("dim_product") =>
        \A i \in 1..Len(data.tables.product) :
          \A c \in CategoriesOf(data.tables.product[i].category_id) :
            \E r \in 1..Len(dw_tables.dim_product.rows) :
              LET row == dw_tables.dim_product.rows[r]
                  cat == data.tables.product_category[c]
              IN /\ row.product_key = data.tables.product[i].product_id
                 /\ row.category_name = cat.name
                 /\ \A p \in CategoriesOf(cat.parent_id) :
                       row.parent_category_name =
                          data.tables.product_category[p].name

-----------------------------------------------------------------------------
\* the facts joined to the order header:
\* <<fact, source table, natural key of the source, inherited key columns>>
JoinedFacts == <<
    <<"fact_sales_order_item", "sales_order_item", "order_item_id",
      {"customer_id", "channel_id", "store_id"}>>,
    <<"fact_payment", "payment", "payment_id",
      {"customer_id", "billing_address_id", "channel_id", "store_id"}>>,
    <<"fact_shipment", "shipment", "shipment_id",
      {"customer_id", "shipping_address_id", "channel_id"}>> >>

\* the sales_order rows the order_id x names
HeadersOf(x) ==
    {j \in 1..Len(data.tables.sales_order) :
        x # NaN /\ data.tables.sales_order[j].order_id = x}

(* C17: a sales_order_item, payment or shipment row whose order_id matches *)
(* no sales_order row is on exactly one row of its fact, every key that    *)
(* row inherits from the order header is -1, the order_date_id of such an  *)
(* item is null, and the run does not raise.                               *)
C17_OrphanRowsKept ==
    /\ AllPresent => pc # "raised"
    /\ Returned =>
         \A k \in 1..Len(JoinedFacts) :
            LET fact == dw_tables[JoinedFacts[k][1]].rows
                src == data.tables[JoinedFacts[k][2]]
            IN \A i \in 1..Len(src) :
                 HeadersOf(src[i].order_id) = {} =>
                    LET at == {r \in 1..Len(fact) :
                                 fact[r].id = src[i][JoinedFacts[k][3]]}
                    IN /\ Cardinality(at) = 1
                       /\ \A r \in at :
                            /\ \A c \in JoinedFacts[k][4] : fact[r][c] = Unknown
                            /\ JoinedFacts[k][1] = "fact_sales_order_item" =>
                                  fact[r].order_date_id = NaN

\* a returned run over an item, a payment and a shipment that name an
\* order sales_order does not hold
C17_Witness ==
    /\ Returned
    /\ \E i \in 1..Len(data.tables.sales_order_item) :
          /\ data.tables.sales_order_item[i].order_id # NaN
          /\ HeadersOf(data.tables.sales_order_item[i].order_id) = {}
          /\ dw_tables.fact_sales_order_item.rows[i].customer_id = Unknown
          /\ dw_tables.fact_sales_order_item.rows[i].order_date_id = NaN
    /\ HeadersOf(data.tables.payment[1].order_id) = {}
    /\ dw_tables.fact_payment.rows[1].billing_address_id = Unknown
    /\ HeadersOf(data.tables.shipment[1].order_id) = {}
    /\ dw_tables.fact_shipment.rows[1].shipping_address_id = Unknown

\* a returned run over an item whose order_id is null
C17_WitnessNullOrder ==
    /\ Returned
    /\ data.tables.sales_order_item[1].order_id = NaN
    /\ dw_tables.fact_sales_order_item.rows[1].store_id = Unknown

-----------------------------------------------------------------------------
\* the rows of the returned calendar whose id is the date key fk
CalendarRowsOf(fk) ==
    {j \in 1..Len(dw_tables.dim_calendar.rows) :
        dw_tables.dim_calendar.rows[j].id = fk}

\* the date key fk names exactly one row of the returned calendar, and the
\* date of that row is the date of the timestamp x
ResolvesTo(fk, x) ==
    /\ Cardinality(CalendarRowsOf(fk)) = 1
    /\ Parses(x)
    /\ \A j \in CalendarRowsOf(fk) :
          dw_tables.dim_calendar.rows[j].date = DayOf(x) * TicksPerDay

FactNames == {FactSources[k][1] : k \in 1..Len(FactSources)}

(* C18: dim_calendar is built before any fact; in the returned tables      *)
(* every non-null date key of a fact names exactly one row of the returned *)
(* dim_calendar, whose date is the date of the timestamp of the same       *)
(* source row (of the order header, for an item); and every fact is what   *)
(* its builder gives from the source tables and that dim_calendar alone.   *)
C18_DateKeysNameCalendarRows ==
    /\ \A f \in FactNames : Built(f) => Built("dim_calendar")
    /\ Returned =>
         /\ \A k \in 1..Len(OwnDateKeys) :
              LET fact == dw_tables[OwnDateKeys[k][1]].rows
                  src == data.tables[OwnDateKeys[k][3]]
              IN /\ Len(fact) = Len(src)
                 /\ \A i \in 1..Len(fact) :
                      fact[i][OwnDateKeys[k][2]] # NaN =>
                         ResolvesTo(fact[i][OwnDateKeys[k][2]],
                                    src[i][OwnDateKeys[k][4]])
         /\ LET fact == dw_tables.fact_sales_order_item.rows
            IN /\ Len(fact) = Len(data.tables.sales_order_item)
               /\ \A i \in 1..Len(fact) :
                    fact[i].order_date_id # NaN =>
                       \E x \in HeaderDates(i) : ResolvesTo(fact[i].order_date_id, x)
         /\ \A f \in FactNames :
              dw_tables[f] =
                 Build(f, data.tables, [dim_calendar |-> dw_tables.dim_calendar])

\* a returned run over two shipments sent on different days: their date
\* keys name different rows of a calendar of several days
C18_Witness ==
    /\ Returned
    /\ Len(data.tables.shipment) = 2
    /\ Len(dw_tables.dim_calendar.rows) >= 2
    /\ dw_tables.fact_shipment.rows[1].shipped_at_date_id # NaN
    /\ dw_tables.fact_shipment.rows[2].shipped_at_date_id # NaN
    /\ dw_tables.fact_shipment.rows[1].shipped_at_date_id #
          dw_tables.fact_shipment.rows[2].shipped_at_date_id
    /\ ResolvesTo(dw_tables.fact_shipment.rows[1].shipped_at_date_id,
                  data.tables.shipment[1].shipped_at)
    /\ ResolvesTo(dw_tables.fact_shipment.rows[2].shipped_at_date_id,
                  data.tables.shipment[2].shipped_at)

=============================================================================
